---- MODULE Spec2Model ----
(***************************************************************************)
(* Model of dep/util.py of ep-stan: invert_normal_params (the conversion   *)
(* between moment and natural parameters of a multivariate normal through  *)
(* LAPACK potrf / potrs / potri), load_stan (the pickle cache of compiled  *)
(* models) and suppress_stdout (the file-descriptor redirection).          *)
(*                                                                         *)
(* Arithmetic is exact.  A number is (n/d)*sqrt(r) with r square-free: the *)
(* entries of a Cholesky factor of a rational matrix are of this shape, so *)
(* the factorisation, the triangular solves and the inversion are computed *)
(* without rounding.  Arrays are float64 ndarrays.                         *)
(***************************************************************************)
EXTENDS Integers, Sequences, FiniteSets, TLC

(***************************************************************************)
(* Bounds of the model.                                                    *)
(***************************************************************************)
MaxN == 2
MaxVal == 2

(***************************************************************************)
(* Exact numbers: [n, d, r] is (n/d)*sqrt(r), d > 0, gcd(n,d) = 1, r >= 1  *)
(* square-free, and zero is [0,1,1].  d = 0 is a non-finite value (the     *)
(* inf/nan a floating-point division by zero produces).                    *)
(***************************************************************************)
Abs(x) == IF x < 0 THEN -x ELSE x

RECURSIVE GCD(_, _)
GCD(a, b) == IF b = 0 THEN a ELSE GCD(b, a % b)

NaN == [n |-> 0, d |-> 0, r |-> 1]
Zero == [n |-> 0, d |-> 1, r |-> 1]
IsNaN(x) == x.d = 0

Norm(n, d, r) ==
    IF n = 0 THEN Zero
    ELSE LET g == GCD(Abs(n), d)
         IN  [n |-> n \div g, d |-> d \div g, r |-> r]

Rat(n, d) == IF d < 0 THEN Norm(-n, -d, 1) ELSE Norm(n, d, 1)
Int2Num(k) == Rat(k, 1)

Neg(x) == [x EXCEPT !.n = -x.n]

Mul(x, y) ==
    IF IsNaN(x) \/ IsNaN(y) THEN NaN
    ELSE LET g == GCD(x.r, y.r)
         IN  Norm(x.n * y.n * g, x.d * y.d, (x.r \div g) * (y.r \div g))

Recip(x) ==
    IF IsNaN(x) \/ x.n = 0 THEN NaN
    ELSE IF x.n > 0 THEN Norm(x.d, x.n * x.r, x.r)
    ELSE Norm(-x.d, (-x.n) * x.r, x.r)

Div(x, y) == Mul(x, Recip(y))

\* x + y; numbers with different radicands are never added by the routines
\* on the inputs of the model (NoMixedSum checks it)
Add(x, y) ==
    IF IsNaN(x) \/ IsNaN(y) THEN NaN
    ELSE IF x.n = 0 THEN y
    ELSE IF y.n = 0 THEN x
    ELSE IF x.r = y.r THEN Norm(x.n * y.d + y.n * x.d, x.d * y.d, x.r)
    ELSE [n |-> 0, d |-> 0, r |-> 0]

Sub(x, y) == Add(x, Neg(y))

IsPos(x) == ~IsNaN(x) /\ x.n > 0

\* the largest s with s*s dividing m (m > 0)
SqPart(m) ==
    LET S == {s \in 1..m : s * s <= m /\ m % (s * s) = 0}
    IN  CHOOSE s \in S : \A t \in S : t <= s

\* square root of a positive rational
Sqrt(x) ==
    LET sn == SqPart(x.n)
        sd == SqPart(x.d)
        fn == x.n \div (sn * sn)
        fd == x.d \div (sd * sd)
    IN  Norm(sn, sd * fd, fn * fd)

RECURSIVE Sum(_, _, _)
\* sum of f[k] for k in lo..hi
Sum(f, lo, hi) == IF lo > hi THEN Zero ELSE Add(f[lo], Sum(f, lo + 1, hi))

Dim(M) == Len(M)
Transpose(M) == [i \in 1..Dim(M) |-> [j \in 1..Dim(M) |-> M[j][i]]]
IntMat(M) == [i \in 1..Dim(M) |-> [j \in 1..Dim(M) |-> Int2Num(M[i][j])]]
IntVec(v) == [i \in 1..Len(v) |-> Int2Num(v[i])]

(***************************************************************************)
(* LAPACK routines as scipy calls them, on the upper triangle (lower =     *)
(* False) of a column-major n x n array.                                   *)
(***************************************************************************)
\* one column step j of the unblocked factorisation A = U'U: the pivot
\* A[j][j] - U[1..j-1,j].U[1..j-1,j]; a pivot that is not positive is stored
\* and ends the routine with info = j; otherwise row j of U is computed
PotrfPivot(M, j) ==
    Sub(M[j][j], Sum([k \in 1..(j - 1) |-> Mul(M[k][j], M[k][j])], 1, j - 1))

PotrfRow(M, j, s) ==
    [i \in 1..Dim(M) |->
        IF i < j THEN M[j][i]
        ELSE IF i = j THEN s
        ELSE Div(Sub(M[j][i],
                     Sum([k \in 1..(j - 1) |-> Mul(M[k][j], M[k][i])], 1, j - 1)),
                 s)]

RECURSIVE PotrfFrom(_, _)
PotrfFrom(M, j) ==
    IF j > Dim(M) THEN [c |-> M, info |-> 0]
    ELSE LET ajj == PotrfPivot(M, j)
         IN  IF ~IsPos(ajj)
             THEN [c |-> [M EXCEPT ![j][j] = ajj], info |-> j]
             ELSE PotrfFrom([M EXCEPT ![j] = PotrfRow(M, j, Sqrt(ajj))], j + 1)

\* potrf(a, lower=False, overwrite_a=True, clean=False): the upper triangle
\* becomes U, the strictly lower triangle keeps what it held
Potrf(M) == PotrfFrom(M, 1)

\* potrs: solve U'U x = b from the upper triangle of c; forward substitution
\* with U' then back substitution with U.  A zero pivot is not detected.
RECURSIVE ForwardSub(_, _, _)
ForwardSub(U, y, i) ==
    IF i > Dim(U) THEN y
    ELSE ForwardSub(U,
            [y EXCEPT ![i] =
                Div(Sub(y[i], Sum([k \in 1..(i - 1) |-> Mul(U[k][i], y[k])], 1, i - 1)),
                    U[i][i])],
            i + 1)

RECURSIVE BackSub(_, _, _)
BackSub(U, x, i) ==
    IF i < 1 THEN x
    ELSE BackSub(U,
            [x EXCEPT ![i] =
                Div(Sub(x[i],
                        Sum([k \in 1..Dim(U) |-> IF k > i THEN Mul(U[i][k], x[k]) ELSE Zero],
                            i + 1, Dim(U))),
                    U[i][i])],
            i - 1)

Potrs(U, rhs) == BackSub(U, ForwardSub(U, rhs, 1), Dim(U))

\* trtri: the inverse of the upper triangular factor, column by column;
\* info = i for the first exactly zero diagonal entry, nothing computed then
TrtriInfo(U) ==
    LET Z == {i \in 1..Dim(U) : U[i][i].n = 0 /\ ~IsNaN(U[i][i])}
    IN  IF Z = {} THEN 0 ELSE CHOOSE i \in Z : \A k \in Z : i <= k

RECURSIVE TrtriFrom(_, _)
TrtriFrom(T, j) ==
    IF j > Dim(T) THEN T
    ELSE LET tjj == Recip(T[j][j])
             col == [i \in 1..(j - 1) |->
                        Mul(Neg(tjj),
                            Sum([k \in 1..(j - 1) |->
                                    IF k >= i THEN Mul(T[i][k], T[k][j]) ELSE Zero],
                                i, j - 1))]
         IN  TrtriFrom([i \in 1..Dim(T) |->
                           IF i < j THEN [T[i] EXCEPT ![j] = col[i]]
                           ELSE IF i = j THEN [T[i] EXCEPT ![j] = tjj]
                           ELSE T[i]],
                       j + 1)

\* lauum: the upper triangle of T T' for the upper triangular T
Lauum(T) ==
    [i \in 1..Dim(T) |-> [j \in 1..Dim(T) |->
        IF i > j THEN T[i][j]
        ELSE Sum([k \in 1..Dim(T) |-> IF k >= j THEN Mul(T[i][k], T[j][k]) ELSE Zero],
                 j, Dim(T))]]

\* potri(c, lower=False, overwrite_c=True): the upper triangle of the inverse
\* of U'U from the upper triangle U of c; the lower triangle is not written
Potri(M) ==
    LET info == TrtriInfo(M)
    IN  IF info # 0 THEN [c |-> M, info |-> info]
        ELSE [c |-> Lauum(TrtriFrom(M, 1)), info |-> 0]

\* cython_util.copy_triu_to_tril: mirror the upper triangle into the lower
copy_triu_to_tril(M) ==
    [i \in 1..Dim(M) |-> [j \in 1..Dim(M) |-> IF i > j THEN M[j][i] ELSE M[i][j]]]

\* reference results, by cofactors and Cramer's rule, for n <= 3
Minor(M, i, j) ==
    LET idx(k, skip) == IF k < skip THEN k ELSE k + 1
    IN  [p \in 1..(Dim(M) - 1) |-> [q \in 1..(Dim(M) - 1) |-> M[idx(p, i)][idx(q, j)]]]

RECURSIVE Det(_)
Det(M) ==
    IF Dim(M) = 0 THEN Int2Num(1)
    ELSE Sum([j \in 1..Dim(M) |->
                 Mul(IF j % 2 = 1 THEN M[1][j] ELSE Neg(M[1][j]), Det(Minor(M, 1, j)))],
             1, Dim(M))

Inverse(M) ==
    LET dt == Det(M)
    IN  [i \in 1..Dim(M) |-> [j \in 1..Dim(M) |->
            Div(IF (i + j) % 2 = 0 THEN Det(Minor(M, j, i)) ELSE Neg(Det(Minor(M, j, i))),
                dt)]]

MatVec(M, v) ==
    [i \in 1..Dim(M) |-> Sum([k \in 1..Dim(M) |-> Mul(M[i][k], v[k])], 1, Dim(M))]

IsSymmetric(M) == \A i, j \in 1..Dim(M) : M[i][j] = M[j][i]

\* Sylvester: every leading principal minor positive
LeadingBlock(M, k) == [i \in 1..k |-> [j \in 1..k |-> M[i][j]]]
IsSPD(M) == IsSymmetric(M) /\ \A k \in 1..Dim(M) : IsPos(Det(LeadingBlock(M, k)))

UpperPart(M) ==
    [i \in 1..Dim(M) |-> [j \in 1..Dim(M) |-> IF i > j THEN Zero ELSE M[i][j]]]

ExampleA == IntMat(<<<<4, 2>>, <<2, 3>>>>)
ExampleB == IntVec(<<1, 1>>)


(***************************************************************************)
(* ndarrays.  An array is its logical contents and its memory order: "C"   *)
(* (row-major), "F" (column-major) or "N" (a strided view, contiguous in   *)
(* neither order).  An array of at most one element that is contiguous is  *)
(* contiguous in both orders.                                              *)
(***************************************************************************)
NoArr == [data |-> <<>>, order |-> "-"]
Arr(data, order) == [data |-> data, order |-> order]

FlipOrder(o) == IF o = "C" THEN "F" ELSE IF o = "F" THEN "C" ELSE o
c_contiguous(o, n) == o = "C" \/ (o = "F" /\ n <= 1)
f_contiguous(o, n) == o = "F" \/ (o = "C" /\ n <= 1)
\* ndarray.flags.farray: BEHAVED and F_CONTIGUOUS and not C_CONTIGUOUS
farray(o, n) == f_contiguous(o, n) /\ ~c_contiguous(o, n)

\* a reference to a matrix buffer, directly or through its transpose (.T)
NoRef == [buf |-> "-", T |-> FALSE]

(***************************************************************************)
(* The inputs of the model.                                                *)
(***************************************************************************)
\* the symmetric n x n matrix with diagonal dg, dg+1, ... and every
\* off-diagonal entry off
Family(n, dg, off) ==
    IntMat([i \in 1..n |-> [j \in 1..n |-> IF i = j THEN dg + i - 1 ELSE off]])

Matrices ==
    {Family(1, dg, 0) : dg \in 0..MaxVal}
    \cup {Family(n, dg, off) : n \in 2..MaxN, dg \in 0..MaxVal, off \in -1..MaxVal}
    \cup {ExampleA}

Ones(n) == IntVec([i \in 1..n |-> 1])
Ramp(n) == IntVec([i \in 1..n |-> i])
Vectors(n) == {Ones(n), Ramp(n)}

MatOrders == {"C", "F", "N"}
VecOrders == {"C", "N"}

\* the matrix argument of a call for the matrix M: M itself, or with
\* cho_form its upper Cholesky factor (M itself when it has none)
Argument(M, cho_form) ==
    IF cho_form /\ IsSPD(M) THEN UpperPart(Potrf(M).c) ELSE M


(***************************************************************************)
(* The pieces of invert_normal_params that do not depend on where the      *)
(* arrays live.                                                            *)
(***************************************************************************)
\* lines 111-115: out_A is used as it is when it is an F-array, through its
\* transpose when that is one, and is refused otherwise
LayoutView(order, n) ==
    IF farray(order, n) THEN [T |-> FALSE, ok |-> TRUE]
    ELSE IF farray(FlipOrder(order), n) THEN [T |-> TRUE, ok |-> TRUE]
    ELSE [T |-> TRUE, ok |-> FALSE]

\* lines 127-131: the factor the solve and the inversion work from
cho_factor(M, cho_form) == IF cho_form THEN [c |-> M, info |-> 0] ELSE Potrf(M)

\* lines 132-133: what out_b holds after cho_solve(cho, out_b, overwrite_b=True)
\* whose result is dropped: the solution when LAPACK worked on the array
\* itself (a contiguous array), the right-hand side still when it worked on a
\* copy (a strided array)
cho_solve(c, vec, order) == IF order = "C" THEN Potrs(c, vec) ELSE vec

\* the memory order of the arrays the call computes in
OutOrderA(modeA, orderA) == IF modeA = "None" THEN "F" ELSE orderA
OutOrderB(modeB, orderB) == IF modeB = "None" THEN "C" ELSE orderB

Failed(exc) == [raised |-> exc, out_A |-> <<>>, out_b |-> <<>>]

\* the whole call: the exception raised ("" for none) and the values returned
invert_normal_params(arg, vec, cho_form, modeA, orderA, modeB, orderB) ==
    LET lv == LayoutView(OutOrderA(modeA, orderA), Dim(arg))
        view == IF lv.T THEN Transpose(arg) ELSE arg
        cho == cho_factor(view, cho_form)
        inv == Potri(cho.c)
    IN  IF ~lv.ok THEN Failed("ValueError")
        ELSE IF cho.info > 0 THEN Failed("LinAlgError")
        ELSE IF inv.info # 0 THEN Failed("LinAlgError")
        ELSE [raised |-> "",
              out_A |-> copy_triu_to_tril(inv.c),
              out_b |-> IF vec = <<>> THEN <<>>
                        ELSE cho_solve(cho.c, vec, OutOrderB(modeB, orderB))]

VARIABLES
    call,       \* the arguments of the call in progress, as the caller gave them
    A,          \* the caller's array A
    b,          \* the caller's array b (NoArr when b is None)
    bufOutA,    \* the caller's buffer passed as out_A (NoArr when none)
    bufOutB,    \* the caller's buffer passed as out_b (NoArr when none)
    newA,       \* the array A.copy(order='F') allocates
    newB,       \* the array b.copy() allocates
    out_A,      \* the local out_A: a reference to A, bufOutA or newA
    out_b,      \* the local out_b: "-", "None", "b", "bufOutB" or "newB"
    pc,         \* the position in invert_normal_params
    raised,     \* the exception that ended the call ("" while none)
    holds,      \* what the upper triangle of out_A holds
    solved      \* what out_A held when cho_solve read it ("" while not run)

invertVars == <<call, A, b, bufOutA, bufOutB, newA, newB, out_A, out_b, pc,
                raised, holds, solved>>

Matrix(buf) ==
    IF buf = "A" THEN A ELSE IF buf = "bufOutA" THEN bufOutA ELSE newA
Vector(buf) ==
    IF buf = "b" THEN b ELSE IF buf = "bufOutB" THEN bufOutB ELSE newB

\* the contents of the array a reference denotes
ViewData(ref) ==
    IF ref.T THEN Transpose(Matrix(ref.buf).data) ELSE Matrix(ref.buf).data

\* the buffer contents after the array a reference denotes is set to M
Stored(ref, M) == IF ref.T THEN Transpose(M) ELSE M

WriteMatrix(ref, M) ==
    /\ A' = IF ref.buf = "A" THEN [A EXCEPT !.data = Stored(ref, M)] ELSE A
    /\ bufOutA' = IF ref.buf = "bufOutA"
                  THEN [bufOutA EXCEPT !.data = Stored(ref, M)] ELSE bufOutA
    /\ newA' = IF ref.buf = "newA" THEN [newA EXCEPT !.data = Stored(ref, M)] ELSE newA

WriteVector(buf, v) ==
    /\ b' = IF buf = "b" THEN [b EXCEPT !.data = v] ELSE b
    /\ bufOutB' = IF buf = "bufOutB" THEN [bufOutB EXCEPT !.data = v] ELSE bufOutB
    /\ newB' = IF buf = "newB" THEN [newB EXCEPT !.data = v] ELSE newB

Start(M, cho_form, modeA, orderA, vec, modeB, orderB) ==
    /\ call = [M |-> M, A |-> Argument(M, cho_form), b |-> vec, cho_form |-> cho_form,
               out_A |-> modeA, out_b |-> modeB]
    /\ A = Arr(Argument(M, cho_form), IF modeA = "in_place" THEN orderA ELSE "C")
    /\ bufOutA = IF modeA = "buffer"
                 THEN Arr(IntMat([i \in 1..Dim(M) |-> [j \in 1..Dim(M) |-> 0]]), orderA)
                 ELSE NoArr
    /\ b = IF vec = <<>> THEN NoArr
           ELSE Arr(vec, IF modeB = "in_place" THEN orderB ELSE "C")
    /\ bufOutB = IF modeB = "buffer"
                 THEN Arr(IntVec([i \in 1..Dim(M) |-> 0]), orderB)
                 ELSE NoArr
    /\ newA = NoArr
    /\ newB = NoArr
    /\ out_A = NoRef
    /\ out_b = "-"
    /\ pc = "process_A"
    /\ raised = ""
    /\ holds = IF cho_form THEN "factor" ELSE "matrix"
    /\ solved = ""

Placements == {"None", "in_place", "buffer"}

\* the inversion moved before the solve
StepsInvertFirst ==
    <<"process_A", "process_b", "factor", "invert", "solve", "mirror", "done">>

\* lines 104-141: the order of the steps of the routine
Steps == <<"process_A", "process_b", "factor", "solve", "invert", "mirror", "done">>
After(step) == Steps[1 + CHOOSE i \in 1..(Len(Steps) - 1) : Steps[i] = step]

InvertInit ==
    \E M \in Matrices, cho_form \in BOOLEAN, modeA \in Placements, orderA \in MatOrders :
        /\ modeA = "None" => orderA = "C"
        /\ \/ Start(M, cho_form, modeA, orderA, <<>>, "None", "C")
           \/ \E vec \in Vectors(Dim(M)), modeB \in Placements, orderB \in VecOrders :
                /\ modeB = "None" => orderB = "C"
                /\ Start(M, cho_form, modeA, orderA, vec, modeB, orderB)

(***************************************************************************)
(* invert_normal_params, step by step.                                     *)
(***************************************************************************)
\* out_A=None taken as the array A itself, without the copy of line 108
ProcessANoCopy ==
    /\ pc = "process_A"
    /\ LET buf == IF call.out_A = "buffer" THEN "bufOutA" ELSE "A"
           order == IF call.out_A = "buffer" THEN bufOutA.order ELSE A.order
           lv == LayoutView(order, Dim(A.data))
       IN  /\ newA' = newA
           /\ bufOutA' = IF call.out_A = "buffer"
                         THEN [bufOutA EXCEPT !.data = A.data] ELSE bufOutA
           /\ out_A' = [buf |-> buf, T |-> lv.T]
           /\ IF lv.ok
              THEN pc' = After("process_A") /\ raised' = raised
              ELSE pc' = "raised" /\ raised' = "ValueError"
    /\ UNCHANGED <<call, A, b, bufOutB, newB, out_b, holds, solved>>

\* lines 105-115: where out_A is computed, and its memory order
ProcessA ==
    /\ pc = "process_A"
    /\ LET buf == IF call.out_A = "in_place" THEN "A"
                  ELSE IF call.out_A = "None" THEN "newA" ELSE "bufOutA"
           order == IF call.out_A = "in_place" THEN A.order
                    ELSE IF call.out_A = "None" THEN "F" ELSE bufOutA.order
           lv == LayoutView(order, Dim(A.data))
       IN  /\ newA' = IF call.out_A = "None" THEN Arr(A.data, "F") ELSE newA
           /\ bufOutA' = IF call.out_A = "buffer"
                         THEN [bufOutA EXCEPT !.data = A.data] ELSE bufOutA
           /\ out_A' = [buf |-> buf, T |-> lv.T]
           /\ IF lv.ok
              THEN pc' = After("process_A") /\ raised' = raised
              ELSE pc' = "raised" /\ raised' = "ValueError"
    /\ UNCHANGED <<call, A, b, bufOutB, newB, out_b, holds, solved>>

\* lines 116-124: where out_b is computed
ProcessB ==
    /\ pc = "process_b"
    /\ IF b # NoArr
       THEN IF call.out_b = "in_place"
            THEN out_b' = "b" /\ UNCHANGED <<newB, bufOutB>>
            ELSE IF call.out_b = "None"
            THEN out_b' = "newB" /\ newB' = Arr(b.data, "C") /\ UNCHANGED bufOutB
            ELSE out_b' = "bufOutB" /\ bufOutB' = [bufOutB EXCEPT !.data = b.data]
                 /\ UNCHANGED newB
       ELSE out_b' = "None" /\ UNCHANGED <<newB, bufOutB>>
    /\ pc' = After("process_b")
    /\ UNCHANGED <<call, A, b, bufOutA, newA, out_A, raised, holds, solved>>

\* lines 127-131: cho_factor(out_A, overwrite_a=True), or the factor as given
Factor ==
    /\ pc = "factor"
    /\ LET res == cho_factor(ViewData(out_A), call.cho_form)
       IN  /\ WriteMatrix(out_A, res.c)
           /\ IF res.info > 0
              THEN pc' = "raised" /\ raised' = "LinAlgError" /\ holds' = "partial"
              ELSE pc' = After("factor") /\ raised' = raised /\ holds' = "factor"
    /\ UNCHANGED <<call, b, bufOutB, newB, out_A, out_b, solved>>

\* lines 132-133: cho_solve(cho, out_b, overwrite_b=True), its result dropped
Solve ==
    /\ pc = "solve"
    /\ IF out_b # "None"
       THEN /\ WriteVector(out_b, cho_solve(ViewData(out_A), Vector(out_b).data,
                                               Vector(out_b).order))
            /\ solved' = holds
       ELSE UNCHANGED <<b, bufOutB, newB, solved>>
    /\ pc' = After("solve")
    /\ UNCHANGED <<call, A, bufOutA, newA, out_A, out_b, raised, holds>>

\* lines 134-138: dpotri_routine(out_A, overwrite_c=True)
Invert ==
    /\ pc = "invert"
    /\ LET res == Potri(ViewData(out_A))
       IN  /\ WriteMatrix(out_A, res.c)
           /\ IF res.info # 0
              THEN pc' = "raised" /\ raised' = "LinAlgError" /\ holds' = holds
              ELSE pc' = After("invert") /\ raised' = raised /\ holds' = "inverse"
    /\ UNCHANGED <<call, b, bufOutB, newB, out_A, out_b, solved>>

\* the return without the copy of the upper triangle
MirrorSkipped ==
    /\ pc = "mirror"
    /\ pc' = "done"
    /\ holds' = "symmetric"
    /\ UNCHANGED <<call, A, b, bufOutA, bufOutB, newA, newB, out_A, out_b, raised, solved>>

\* lines 140-141: copy_triu_to_tril(out_A); return out_A, out_b
Mirror ==
    /\ pc = "mirror"
    /\ WriteMatrix(out_A, copy_triu_to_tril(ViewData(out_A)))
    /\ pc' = After("mirror")
    /\ holds' = "symmetric"
    /\ UNCHANGED <<call, b, bufOutB, newB, out_A, out_b, raised, solved>>

\* what a finished call returned
ReturnedA == ViewData(out_A)
ReturnedB == IF out_b = "None" THEN <<>> ELSE Vector(out_b).data

Finished == pc \in {"done", "raised"}

\* how the call ended: the exception, or the values returned
Outcome ==
    [raised |-> raised,
     out_A |-> IF pc = "done" THEN ReturnedA ELSE <<>>,
     out_b |-> IF pc = "done" THEN ReturnedB ELSE <<>>]

\* the memory orders of the caller's arrays the call was given
GivenOrderA == IF call.out_A = "buffer" THEN bufOutA.order ELSE A.order
GivenOrderB ==
    IF call.out_b = "buffer" THEN bufOutB.order
    ELSE IF b = NoArr THEN "C" ELSE b.order

\* the steps of the call compose to invert_normal_params
StepsAgree ==
    Finished =>
        Outcome = invert_normal_params(call.A, call.b, call.cho_form, call.out_A,
                                       GivenOrderA, call.out_b, GivenOrderB)

NoMixedSum ==
    /\ \A buf \in {"A", "bufOutA", "newA"} :
         \A i, j \in 1..Dim(Matrix(buf).data) : Matrix(buf).data[i][j].r # 0
    /\ \A buf \in {"b", "bufOutB", "newB"} :
         \A i \in 1..Len(Vector(buf).data) : Vector(buf).data[i].r # 0

(***************************************************************************)
(* load_stan.  A file name is a sequence of characters; the file system    *)
(* maps a path to what the file holds: Absent, a Stan source (a version    *)
(* 1..MaxVersion, or Broken, which does not compile) or the pickle of the  *)
(* model compiled from a source version.                                   *)
(***************************************************************************)
MaxVersion == 2
Absent == 0
Broken == -1

DotStan == <<".", "s", "t", "a", "n">>
DotPkl == <<".", "p", "k", "l">>
BaseNames == {<<"m">>, <<"d", "/", "m">>}
FileNames == {base \o ending : base \in BaseNames, ending \in {<<>>, DotStan, DotPkl}}
StanPaths == {base \o DotStan : base \in BaseNames}
PklPaths == {base \o DotPkl : base \in BaseNames}

VARIABLES
    files,      \* the file system: path -> contents
    loaded,     \* the last call of load_stan: its arguments and how it ended
    tick,       \* flips at every call of load_stan
    cached      \* the pickles a call has loaded or written, none removed since

stanVars == <<files, loaded, tick, cached>>

endswith(str, suffix) ==
    /\ Len(str) >= Len(suffix)
    /\ SubSeq(str, Len(str) - Len(suffix) + 1, Len(str)) = suffix

\* both endings cut as if they were five characters long
StripFive(filename) ==
    IF endswith(filename, DotPkl) \/ endswith(filename, DotStan)
    THEN SubSeq(filename, 1, Len(filename) - 5)
    ELSE filename

\* lines 210-214: filename[:-4] or filename[:-5]
StripEnding(filename) ==
    IF endswith(filename, DotPkl) THEN SubSeq(filename, 1, Len(filename) - 4)
    ELSE IF endswith(filename, DotStan) THEN SubSeq(filename, 1, Len(filename) - 5)
    ELSE filename

\* os.path.isfile
isfile(path) == path \in DOMAIN files /\ files[path] # Absent

\* StanModel(file=...): the model of a source, or an error for a broken one
Compiles(source) == source # Broken

StanInit ==
    /\ files = [path \in StanPaths \cup PklPaths |-> Absent]
    /\ loaded = [filename |-> <<>>, overwrite |-> FALSE, result |-> "", sm |-> Absent]
    /\ tick = FALSE
    /\ cached = {}

\* lines 194-240
LoadStan(filename, overwrite) ==
    LET name == StripEnding(filename)
        pkl == name \o DotPkl
        stan == name \o DotStan
        done(result, sm) ==
            loaded' = [filename |-> filename, overwrite |-> overwrite,
                       result |-> result, sm |-> sm]
    IN  /\ tick' = ~tick
        /\ IF ~overwrite /\ isfile(pkl)
           THEN done("loaded", files[pkl]) /\ files' = files
           ELSE IF isfile(stan)
           THEN IF Compiles(files[stan])
                THEN /\ done("compiled", files[stan])
                     /\ files' = [path \in DOMAIN files \cup {pkl} |->
                                     IF path = pkl THEN files[stan] ELSE files[path]]
                ELSE done("compile error", Absent) /\ files' = files
           ELSE done("IOError", Absent) /\ files' = files
        /\ cached' = IF loaded'.result \in {"loaded", "compiled"}
                     THEN cached \cup {pkl} ELSE cached

\* the user writes or removes a model source, or removes a pickle
WriteStan(path, source) ==
    /\ files[path] # source
    /\ files' = [files EXCEPT ![path] = source]
    /\ UNCHANGED <<loaded, tick, cached>>

RemoveFile(path) ==
    /\ files[path] # Absent
    /\ files' = [files EXCEPT ![path] = Absent]
    /\ cached' = {}
    /\ UNCHANGED <<loaded, tick>>

(***************************************************************************)
(* suppress_stdout.  The file descriptor table of the process maps a       *)
(* descriptor to the open file it refers to ("-" when closed).  os.open    *)
(* and os.dup take the lowest free descriptor and fail when none is free.  *)
(***************************************************************************)
MaxFd == 9
MaxDepth == 2

VARIABLES
    fds,        \* the descriptor table, 0..MaxFd
    managers,   \* the suppress_stdout objects of the with blocks in progress
    unwinding   \* the exception propagating out of a with block ("" for none)

fdVars == <<fds, managers, unwinding>>

FreeFds == {fd \in DOMAIN fds : fds[fd] = "-"}
LowestFree == CHOOSE fd \in FreeFds : \A other \in FreeFds : fd <= other

\* the descriptors n successive os.open / os.dup calls return
RECURSIVE Allocate(_, _)
Allocate(table, targets) ==
    LET free == {fd \in DOMAIN table : table[fd] = "-"}
        fd == CHOOSE f \in free : \A other \in free : f <= other
    IN  IF targets = <<>> THEN [table |-> table, got |-> <<>>, ok |-> TRUE]
        ELSE IF free = {} THEN [table |-> table, got |-> <<>>, ok |-> FALSE]
        ELSE LET rest == Allocate([table EXCEPT ![fd] = Head(targets)], Tail(targets))
             IN  [rest EXCEPT !.got = <<fd>> \o rest.got]

FdInit ==
    /\ fds = [fd \in 0..MaxFd |->
                IF fd = 0 THEN "stdin" ELSE IF fd = 1 THEN "stdout"
                ELSE IF fd = 2 THEN "stderr" ELSE "-"]
    /\ managers = <<>>
    /\ unwinding = ""

Idle == IF managers = <<>> THEN TRUE ELSE managers[Len(managers)].entered

\* lines 256-260: __init__, at the head of a with statement; an os.open or
\* os.dup that finds no free descriptor raises OSError and the block is not
\* entered
Construct ==
    /\ Idle
    /\ unwinding = ""
    /\ Len(managers) < MaxDepth
    /\ LET res == Allocate(fds, <<"null", "null", fds[1], fds[2]>>)
       IN  /\ fds' = res.table
           /\ IF res.ok
              THEN /\ managers' = Append(managers,
                        [null_fds |-> <<res.got[1], res.got[2]>>,
                         save_fds |-> <<res.got[3], res.got[4]>>,
                         entered |-> FALSE,
                         before |-> <<fds[1], fds[2]>>])
                   /\ unwinding' = ""
              ELSE managers' = managers /\ unwinding' = "OSError"

\* lines 262-265: __enter__
Enter ==
    /\ managers # <<>>
    /\ ~managers[Len(managers)].entered
    /\ LET self == managers[Len(managers)]
       IN  /\ fds' = [fds EXCEPT ![1] = fds[self.null_fds[1]],
                                 ![2] = fds[self.null_fds[2]]]
           /\ managers' = [managers EXCEPT ![Len(managers)] =
                              [self EXCEPT !.entered = TRUE,
                                           !.before = <<fds[1], fds[2]>>]]
    /\ UNCHANGED unwinding

\* the saved descriptors put back the wrong way round
ExitSwapped(exc) ==
    /\ managers # <<>>
    /\ managers[Len(managers)].entered
    /\ unwinding # "" => exc
    /\ LET self == managers[Len(managers)]
       IN  fds' = [fds EXCEPT ![1] = fds[self.save_fds[2]],
                              ![2] = fds[self.save_fds[1]],
                              ![self.null_fds[1]] = "-",
                              ![self.null_fds[2]] = "-"]
    /\ managers' = SubSeq(managers, 1, Len(managers) - 1)
    /\ unwinding' = IF ~exc THEN "" ELSE IF unwinding # "" THEN unwinding ELSE "Exception"

\* lines 267-273: __exit__, when the body ends (exc = FALSE) or raises
Exit(exc) ==
    /\ managers # <<>>
    /\ managers[Len(managers)].entered
    /\ unwinding # "" => exc
    /\ LET self == managers[Len(managers)]
       IN  fds' = [fds EXCEPT ![1] = fds[self.save_fds[1]],
                              ![2] = fds[self.save_fds[2]],
                              ![self.null_fds[1]] = "-",
                              ![self.null_fds[2]] = "-"]
    /\ managers' = SubSeq(managers, 1, Len(managers) - 1)
    /\ unwinding' = IF ~exc THEN "" ELSE IF unwinding # "" THEN unwinding ELSE "Exception"

\* the code around the blocks: it opens and closes files of its own, and
\* catches an exception that left a block
OpenFile ==
    /\ Idle
    /\ unwinding = ""
    /\ FreeFds # {}
    /\ fds' = [fds EXCEPT ![LowestFree] = "file"]
    /\ UNCHANGED <<managers, unwinding>>

CloseFile(fd) ==
    /\ Idle
    /\ unwinding = ""
    /\ fds[fd] = "file"
    /\ fds' = [fds EXCEPT ![fd] = "-"]
    /\ UNCHANGED <<managers, unwinding>>

Catch ==
    /\ unwinding # ""
    /\ unwinding' = ""
    /\ UNCHANGED <<fds, managers>>

(***************************************************************************)
(* The specifications: one per routine, the state of the others at rest.   *)
(***************************************************************************)
vars == <<invertVars, stanVars, fdVars>>

InvertIdle ==
    /\ call = [M |-> <<>>, A |-> <<>>, b |-> <<>>, cho_form |-> FALSE,
               out_A |-> "None", out_b |-> "None"]
    /\ A = NoArr /\ b = NoArr /\ bufOutA = NoArr /\ bufOutB = NoArr
    /\ newA = NoArr /\ newB = NoArr
    /\ out_A = NoRef /\ out_b = "-"
    /\ pc = "idle" /\ raised = "" /\ holds = "" /\ solved = ""

Init == InvertInit /\ StanInit /\ FdInit

Next ==
    \/ ProcessA /\ UNCHANGED <<stanVars, fdVars>>
    \/ ProcessB /\ UNCHANGED <<stanVars, fdVars>>
    \/ Factor /\ UNCHANGED <<stanVars, fdVars>>
    \/ Solve /\ UNCHANGED <<stanVars, fdVars>>
    \/ Invert /\ UNCHANGED <<stanVars, fdVars>>
    \/ Mirror /\ UNCHANGED <<stanVars, fdVars>>

Spec == Init /\ [][Next]_vars

StanNext ==
    \/ \E filename \in FileNames, overwrite \in BOOLEAN :
          LoadStan(filename, overwrite) /\ UNCHANGED <<invertVars, fdVars>>
    \/ \E path \in StanPaths, source \in (1..MaxVersion) \cup {Broken} :
          WriteStan(path, source) /\ UNCHANGED <<invertVars, fdVars>>
    \/ \E path \in StanPaths \cup PklPaths :
          RemoveFile(path) /\ UNCHANGED <<invertVars, fdVars>>

InitStan == InvertIdle /\ StanInit /\ FdInit

SpecStan == InitStan /\ [][StanNext]_vars

FdNext ==
    \/ Construct /\ UNCHANGED <<invertVars, stanVars>>
    \/ Enter /\ UNCHANGED <<invertVars, stanVars>>
    \/ \E exc \in BOOLEAN : Exit(exc) /\ UNCHANGED <<invertVars, stanVars>>
    \/ OpenFile /\ UNCHANGED <<invertVars, stanVars>>
    \/ \E fd \in DOMAIN fds : CloseFile(fd) /\ UNCHANGED <<invertVars, stanVars>>
    \/ Catch /\ UNCHANGED <<invertVars, stanVars>>

InitFd == InvertIdle /\ StanInit /\ FdInit

SpecFd == InitFd /\ [][FdNext]_vars

(***************************************************************************)
(* Claims about invert_normal_params.                                      *)
(***************************************************************************)
\* the direct results: the inverse by cofactors and its product with b
DirectA == Inverse(call.M)
DirectB == IF call.b = <<>> THEN <<>> ELSE MatVec(Inverse(call.M), call.b)

DefaultPlacement == call.out_A = "None" /\ call.out_b = "None"

\* C1: for every symmetric positive-definite A and every b, the call with
\* cho_form=False (outputs in new arrays) returns the inverse of A and the
\* inverse applied to b; for A = [[4,2],[2,3]], b = [1,1] it returns
\* [[3/8,-1/4],[-1/4,1/2]] and [1/8,1/4]
C1_InverseReturned ==
    (Finished /\ ~call.cho_form /\ IsSPD(call.M) /\ DefaultPlacement) =>
        /\ pc = "done"
        /\ ReturnedA = DirectA
        /\ ReturnedB = DirectB
        /\ (call.M = ExampleA /\ call.b = ExampleB) =>
              /\ ReturnedA = <<<<Rat(3, 8), Rat(-1, 4)>>, <<Rat(-1, 4), Rat(1, 2)>>>>
              /\ ReturnedB = <<Rat(1, 8), Rat(1, 4)>>

\* the same for matrices of two or more rows
C1_FromTwoRows ==
    (Finished /\ ~call.cho_form /\ IsSPD(call.M) /\ DefaultPlacement /\ Dim(call.M) >= 2) =>
        /\ pc = "done"
        /\ ReturnedA = DirectA
        /\ ReturnedB = DirectB
        /\ (call.M = ExampleA /\ call.b = ExampleB) =>
              /\ ReturnedA = <<<<Rat(3, 8), Rat(-1, 4)>>, <<Rat(-1, 4), Rat(1, 2)>>>>
              /\ ReturnedB = <<Rat(1, 8), Rat(1, 4)>>

\* the call with the same arguments but cho_form=False on the matrix itself
UnfactoredCall ==
    invert_normal_params(call.M, call.b, FALSE, call.out_A, GivenOrderA,
                         call.out_b, GivenOrderB)

\* C2: for a symmetric positive-definite A with upper Cholesky factor U, the
\* call on U with cho_form=True ends as the call on A with cho_form=False
\* does, for every b, output placement and memory order
C2_ChoFormEquivalent ==
    (Finished /\ call.cho_form /\ IsSPD(call.M)) => Outcome = UnfactoredCall

\* the same when the array the call computes in is column-major already
C2_ColumnMajor ==
    (Finished /\ call.cho_form /\ IsSPD(call.M) /\ (GivenOrderA = "F" \/ call.out_A = "None"))
        => Outcome = UnfactoredCall

\* the call with the same arguments but both outputs in new arrays
AllocatedCall ==
    invert_normal_params(call.A, call.b, call.cho_form, "None", "C", "None", "C")

InPlaceSomewhere == call.out_A = "in_place" \/ call.out_b = "in_place"

\* C3: a call with out_A='in_place' and/or out_b='in_place' returns what the
\* call with out_A=None, out_b=None returns, and the caller's A and b then
\* hold the returned matrix and vector
C3_InPlaceEquivalent ==
    (Finished /\ InPlaceSomewhere /\ IsSPD(call.M) /\ GivenOrderA # "N") =>
        /\ Outcome = AllocatedCall
        /\ (pc = "done" /\ call.out_A = "in_place") => A.data = ReturnedA
        /\ (pc = "done" /\ call.out_b = "in_place") => b.data = ReturnedB

\* the same for contiguous b and a matrix that is not given in factored form
C3_Contiguous ==
    (Finished /\ InPlaceSomewhere /\ IsSPD(call.M) /\ GivenOrderA # "N"
        /\ GivenOrderB # "N" /\ ~call.cho_form) =>
        /\ Outcome = AllocatedCall
        /\ (pc = "done" /\ call.out_A = "in_place") => A.data = ReturnedA
        /\ (pc = "done" /\ call.out_b = "in_place") => b.data = ReturnedB

\* C4: the matrix a call returns is exactly symmetric, for any input, any
\* output placement and either value of cho_form
C4_ReturnedSymmetric == pc = "done" => IsSymmetric(ReturnedA)

C4_Witness ==
    /\ pc = "done"
    /\ call.cho_form
    /\ call.out_A = "in_place"
    /\ Dim(call.M) >= 2
    /\ ReturnedA[1][2].n # 0

\* the caller's inputs are as given unless they are the designated outputs
InputsKept ==
    /\ call.out_A # "in_place" => A.data = call.A
    /\ call.out_b # "in_place" => b.data = call.b

\* C5: with cho_form=False and a matrix that is not positive definite the
\* call raises LinAlgError, returns nothing, and changes no caller array but
\* the designated outputs
C5_NotPositiveDefinite ==
    (Finished /\ ~call.cho_form /\ ~IsSPD(call.M)) =>
        /\ pc = "raised"
        /\ raised = "LinAlgError"
        /\ InputsKept

\* the same for a call that passes the memory-order test
C5_PastLayout ==
    (Finished /\ ~call.cho_form /\ ~IsSPD(call.M)) =>
        /\ pc = "raised"
        /\ raised = (IF LayoutView(OutOrderA(call.out_A, GivenOrderA), Dim(call.M)).ok
                     THEN "LinAlgError" ELSE "ValueError")
        /\ InputsKept

\* the second call of a round trip, on what the first returned
SecondCall(modeA, orderA, modeB, orderB) ==
    invert_normal_params(ReturnedA, ReturnedB, FALSE, modeA, orderA, modeB, orderB)

\* C6: for a symmetric positive-definite A and a vector b, two calls with
\* cho_form=False, the second on what the first returned, give back (A, b),
\* for every placement of the outputs
C6_RoundTrip ==
    (Finished /\ ~call.cho_form /\ IsSPD(call.M) /\ call.b # <<>>) =>
        /\ pc = "done"
        /\ \A modeA \in Placements, modeB \in Placements :
              SecondCall(modeA, "F", modeB, "C")
                  = [raised |-> "", out_A |-> call.M, out_b |-> call.b]

C6_TwoRowsContiguous ==
    (Finished /\ ~call.cho_form /\ IsSPD(call.M) /\ call.b # <<>>
        /\ Dim(call.M) >= 2 /\ GivenOrderA # "N" /\ GivenOrderB # "N") =>
        /\ pc = "done"
        /\ \A modeA \in Placements, modeB \in Placements :
              SecondCall(modeA, "F", modeB, "C")
                  = [raised |-> "", out_A |-> call.M, out_b |-> call.b]

\* C9: with b supplied the solve runs once the factor is in out_A and before
\* the inversion overwrites it, so it reads the factor and never the inverse;
\* the mirroring runs only after a successful inversion
C9_StepOrder ==
    /\ solved \in {"", "factor"}
    /\ (pc \in {"invert", "mirror", "done"} /\ b # NoArr) => solved = "factor"
    /\ (pc = "invert" => holds = "factor")
    /\ (pc = "mirror" => holds = "inverse" /\ raised = "")
    /\ (holds = "symmetric" => pc = "done" /\ raised = "")

C9_Witness ==
    /\ pc = "done"
    /\ ~call.cho_form
    /\ solved = "factor"
    /\ holds = "symmetric"
    /\ Dim(call.M) >= 2

\* neither the given order nor the order of the transpose is column-major
NoColumnMajor(order, n) == ~f_contiguous(order, n) /\ ~f_contiguous(FlipOrder(order), n)

NothingComputed ==
    /\ holds = (IF call.cho_form THEN "factor" ELSE "matrix")
    /\ solved = ""
    /\ out_b = "-"
    /\ newB = NoArr
    /\ b.data = call.b
    /\ call.out_b = "buffer" => bufOutB.data = IntVec([i \in 1..Dim(call.M) |-> 0])

\* C10: ValueError is raised exactly when the array given as the output
\* matrix is column-major neither as it is nor transposed, before anything is
\* computed and before b or out_b is touched, and never when out_A is None
C10_LayoutError ==
    /\ Finished =>
          (raised = "ValueError"
              <=> (call.out_A # "None" /\ NoColumnMajor(GivenOrderA, Dim(call.M))))
    /\ raised = "ValueError" => NothingComputed

C10_FromTwoRows ==
    /\ (Finished /\ Dim(call.M) >= 2) =>
          (raised = "ValueError"
              <=> (call.out_A # "None" /\ NoColumnMajor(GivenOrderA, Dim(call.M))))
    /\ raised = "ValueError" => NothingComputed

\* the array each placement designates as the output
DesignatedA == [None |-> "newA", in_place |-> "A", buffer |-> "bufOutA"]
DesignatedB == [None |-> "newB", in_place |-> "b", buffer |-> "bufOutB"]

\* C11: the placement of the matrix output follows out_A alone and that of
\* the vector output follows out_b alone; at every point of the call, and
\* after it has returned or raised, the input A holds what the caller gave
\* unless out_A is 'in_place', and the input b holds what the caller gave
\* unless out_b is 'in_place'
C11_Frame ==
    /\ call.out_A # "in_place" => A.data = call.A
    /\ (call.out_b # "in_place" /\ call.b # <<>>) => b.data = call.b
    /\ out_A # NoRef => out_A.buf = DesignatedA[call.out_A]
    /\ out_b \notin {"-", "None"} => out_b = DesignatedB[call.out_b]
    /\ out_b = "None" => call.b = <<>>

\* a call that wrote both of its buffers and returned
C11_Witness ==
    /\ pc = "done"
    /\ call.out_A = "buffer"
    /\ call.out_b = "buffer"
    /\ call.b # <<>>
    /\ bufOutA.data # call.A
    /\ bufOutB.data # call.b
    /\ A.data = call.A
    /\ b.data = call.b

\* a call that raised after the factorisation overwrote part of its buffer
C11_RaisedAfterWrite ==
    /\ pc = "raised"
    /\ raised = "LinAlgError"
    /\ call.out_A # "in_place"
    /\ ViewData(out_A) # call.A
    /\ A.data = call.A

(***************************************************************************)
(* Claims about load_stan.                                                 *)
(***************************************************************************)
\* the model a file name denotes: the name without its ending
NamedBase(filename) ==
    CHOOSE base \in BaseNames : filename \in {base, base \o DotStan, base \o DotPkl}

\* C7: load_stan compiles only when overwrite is True or the .pkl file is
\* absent; with overwrite False and the .pkl file present it loads the pickle
\* and writes no file; when it compiles it compiles the .stan file and writes
\* the .pkl file; when the file it needs is missing it raises IOError and
\* changes no file; so after a successful call the .pkl file exists, and until
\* a file is removed a call with overwrite False loads it without compiling
C7_LoadStanCaching ==
    /\ [](\A pkl \in cached : isfile(pkl))
    /\ [][tick' # tick =>
            LET pkl == NamedBase(loaded'.filename) \o DotPkl
                stan == NamedBase(loaded'.filename) \o DotStan
                result == loaded'.result
                compiling == loaded'.overwrite \/ files[pkl] = Absent
            IN  /\ result \in {"loaded", "compiled", "compile error", "IOError"}
                /\ result \in {"compiled", "compile error"} => compiling
                /\ ~compiling =>
                      /\ result = "loaded"
                      /\ loaded'.sm = files[pkl]
                      /\ files' = files
                /\ result = "loaded" => ~compiling
                /\ result = "compiled" =>
                      /\ files[stan] # Absent
                      /\ loaded'.sm = files[stan]
                      /\ files' = [files EXCEPT ![pkl] = files[stan]]
                /\ (compiling /\ files[stan] = Absent) <=> result = "IOError"
                /\ result # "compiled" => files' = files
                /\ result \in {"loaded", "compiled"} => files'[pkl] # Absent
                /\ (pkl \in cached /\ ~loaded'.overwrite) => result = "loaded"
       ]_vars

\* a call given a name ending in .stan loaded the pickle, though the source
\* has changed since it was compiled
C7_Witness ==
    /\ loaded.result = "loaded"
    /\ loaded.filename = <<"d", "/", "m">> \o DotStan
    /\ <<"d", "/", "m">> \o DotPkl \in cached
    /\ files[<<"d", "/", "m">> \o DotStan] \notin {Absent, loaded.sm}

(***************************************************************************)
(* Claims about suppress_stdout.                                           *)
(***************************************************************************)
\* C8: while the body of a with block runs, descriptors 1 and 2 refer to the
\* null device; when the block is left, by the end of the body or by an
\* exception, they refer again to what they referred to before the
\* redirection
C8_Restored ==
    /\ []((managers # <<>> /\ managers[1].entered) => (fds[1] = "null" /\ fds[2] = "null"))
    /\ [][Len(managers') < Len(managers) =>
            /\ fds'[1] = managers[Len(managers)].before[1]
            /\ fds'[2] = managers[Len(managers)].before[2]
       ]_vars

\* the outermost block was left by an exception, after an earlier block
C8_Witness ==
    /\ managers = <<>>
    /\ unwinding = "Exception"
    /\ fds[1] = "stdout"
    /\ fds[2] = "stderr"
    /\ Cardinality({fd \in DOMAIN fds : fds[fd] = "stdout"}) >= 3

\* the descriptors a suppress_stdout object opened or duplicated in __init__
OwnFds(self) ==
    {self.null_fds[1], self.null_fds[2], self.save_fds[1], self.save_fds[2]}

OpenFds(table) == {fd \in DOMAIN table : table[fd] # "-"}

\* C12: when __exit__ of a suppress_stdout object has run, the two null
\* descriptors and the two saved duplicates the object took in __init__ are
\* all closed
C12_Released ==
    [][Len(managers') < Len(managers) =>
            \A fd \in OwnFds(managers[Len(managers)]) : fds'[fd] = "-"
      ]_vars

\* what __exit__ does release: the two null descriptors, and nothing else
C12_NullOnly ==
    [][Len(managers') < Len(managers) =>
            LET self == managers[Len(managers)]
            IN  OpenFds(fds) \ OpenFds(fds') = {self.null_fds[1], self.null_fds[2]}
      ]_vars

\* a with block has been left and the duplicates it saved are still open
C12_Leaked ==
    /\ managers = <<>>
    /\ unwinding = ""
    /\ \A fd \in OpenFds(fds) : fds[fd] # "file"
    /\ Cardinality(OpenFds(fds)) = 5
====
